---- MODULE Spec2Model ----
(***************************************************************************)
(* A model of the two utilities of sora2api:                               *)
(*   scripts/refresh_token_by_id.py   _run, _parse_expires_fallback        *)
(*   src/services/character_manager.py  CharacterManager.validate_character*)
(* One behaviour follows one of the two programs (prog).  The refresher    *)
(* may be run again on the same row, up to MaxRuns times.                  *)
(***************************************************************************)
EXTENDS Integers, Sequences, FiniteSets, TLC

\* ------------------------------------------------------------------ bounds
\* How many times the operator runs the refresh script on the row.
MaxRuns == 2
\* The local zone's offset from UTC, in the model's time unit.
LocalUtcOffset == 1

\* ---------------------------------------------------------- Python values
\* Optional[T]: None is the empty tuple, a present value x is <<x>>.
None == <<>>
Some(x) == <<x>>
IsNone(o) == o = <<>>
\* Python truthiness of an Optional[str]: None and "" are falsy.
Truthy(o) == o # <<>> /\ o[1] # ""

\* A printed or logged fragment: a string, a formatted datetime, or None.
StrV(s) == [t |-> "str", s |-> s, n |-> 0]
TimeV(n) == [t |-> "time", s |-> "", n |-> n]
NoneV == [t |-> "none", s |-> "", n |-> 0]
OptStrV(o) == IF IsNone(o) THEN NoneV ELSE StrV(o[1])
\* x.isoformat() if x else None
OptTimeV(o) == IF IsNone(o) THEN NoneV ELSE TimeV(o[1])

\* --------------------------------------------------------- access tokens
\* The access tokens of the model.  What each one decodes to is the table
\* decode_jwt below.
AccessTokens == {"atA", "atB", "atC", "atD", "atE", "atH"}

\* An "exp" claim as the JSON payload carries it.
IntExp(n) == [kind |-> "int", v |-> n]
\* an integer beyond what datetime.fromtimestamp accepts (e.g. milliseconds)
HugeExp == [kind |-> "huge", v |-> 0]
\* a value int() rejects
BadExp == [kind |-> "str", v |-> 0]

\* TokenManager.decode_jwt(token): the decoded claims, or an exception
\* (ok = FALSE) on a malformed token.  A fixed function of the token.
decode_jwt(tok) ==
    CASE tok = "atA" -> [ok |-> TRUE, hasExp |-> TRUE, exp |-> IntExp(5)]
      [] tok = "atE" -> [ok |-> TRUE, hasExp |-> TRUE, exp |-> IntExp(7)]
      [] tok = "atB" -> [ok |-> TRUE, hasExp |-> FALSE, exp |-> BadExp]
      [] tok = "atD" -> [ok |-> TRUE, hasExp |-> TRUE, exp |-> BadExp]
      [] tok = "atH" -> [ok |-> TRUE, hasExp |-> TRUE, exp |-> HugeExp]
      [] OTHER -> [ok |-> FALSE, hasExp |-> FALSE, exp |-> BadExp]

\* hashlib.sha256(tok.encode("utf-8")).hexdigest()[:12]: a digest, in a
\* value space disjoint from the tokens.
Sha256Prefix(tok) ==
    CASE tok = "atA" -> "3f1c"
      [] tok = "atB" -> "a90e"
      [] tok = "atC" -> "77b2"
      [] tok = "atD" -> "c4d8"
      [] tok = "atE" -> "e05a"
      [] tok = "atH" -> "1b6f"
      [] OTHER -> "d41d"

\* datetime.fromtimestamp(int(exp)): naive local time, or an exception
\* (None here) when int() or fromtimestamp rejects the value.
FromTimestamp(exp) ==
    IF exp.kind = "int" THEN Some(exp.v + LocalUtcOffset) ELSE None

\* try: decoded = decode_jwt(tok); if "exp" in decoded: fromtimestamp(...)
\* except Exception: pass      -- the value left in the variable
JwtExp(tok) ==
    LET d == decode_jwt(tok) IN
    IF d.ok /\ d.hasExp THEN FromTimestamp(d.exp) ELSE None

\* ------------------------------------------------ the "expires" strings
\* A string is a sequence of lexical pieces: a date-time body dt(n), the
\* literal "Z", a numeric offset off(k), white space, or junk.
Dt(n) == [c |-> "dt", v |-> n]
Zed == [c |-> "Z", v |-> 0]
Off(k) == [c |-> "off", v |-> k]
Sp == [c |-> "sp", v |-> 0]
Junk == [c |-> "x", v |-> 0]

RECURSIVE LStrip(_)
LStrip(s) == IF s # <<>> /\ Head(s).c = "sp" THEN LStrip(Tail(s)) ELSE s
RECURSIVE RStrip(_)
RStrip(s) ==
    IF s # <<>> /\ s[Len(s)].c = "sp" THEN RStrip(SubSeq(s, 1, Len(s) - 1)) ELSE s
\* str.strip()
Strip(s) == RStrip(LStrip(s))

\* if s.endswith("Z"): s = s[:-1] + "+00:00"
ZToOffset(s) ==
    IF s # <<>> /\ s[Len(s)].c = "Z"
    THEN Append(SubSeq(s, 1, Len(s) - 1), Off(0))
    ELSE s

\* datetime.fromisoformat(s): [ok, aware, v, off]; ok = FALSE is ValueError.
FromIsoFormat(s) ==
    IF Len(s) = 1 /\ s[1].c = "dt"
    THEN [ok |-> TRUE, aware |-> FALSE, v |-> s[1].v, off |-> 0]
    ELSE IF Len(s) = 2 /\ s[1].c = "dt" /\ s[2].c = "off"
    THEN [ok |-> TRUE, aware |-> TRUE, v |-> s[1].v, off |-> s[2].v]
    ELSE [ok |-> FALSE, aware |-> FALSE, v |-> 0, off |-> 0]

\* dt.astimezone().replace(tzinfo=None) for an aware dt; dt itself if naive
NormalizeLocal(dt) ==
    IF dt.aware THEN Some(dt.v - dt.off + LocalUtcOffset) ELSE Some(dt.v)

\* _parse_expires_fallback(expires)
_parse_expires_fallback(expires) ==
    IF IsNone(expires) \/ expires[1] = <<>> THEN None
    ELSE LET dt == FromIsoFormat(ZToOffset(Strip(expires[1]))) IN
         IF dt.ok THEN NormalizeLocal(dt) ELSE None

\* The "expires" values an exchange result may carry (None: key absent).
ExpiresValues ==
    { None, Some(<<>>), Some(<<Dt(3)>>), Some(<<Dt(3), Zed>>),
      Some(<<Sp, Dt(4), Off(2), Sp>>), Some(<<Dt(3), Zed, Zed>>),
      Some(<<Junk>>) }

\* ------------------------------------------------------------ collaborators
\* What st_to_at / rt_to_at can answer: an exception, or a mapping whose
\* "access_token" is absent, empty or a token, with an optional "expires".
RaisedResponse ==
    [raises |-> TRUE, access_token |-> None, expires |-> None]
Responses ==
    {RaisedResponse}
    \cup {[raises |-> FALSE, access_token |-> a, expires |-> None] :
            a \in {None, Some("")}}
    \cup {[raises |-> FALSE, access_token |-> Some(t), expires |-> e] :
            t \in AccessTokens, e \in ExpiresValues}

\* The text of an exception raised by a collaborator (TokenManager,
\* SoraClient).  Their logging and errors are redacted: no token value.
ExchangeErrorText == "exchange request failed"

\* The rows db.get_token(token_id) can find; exists = FALSE: no such row.
NoRow ==
    [exists |-> FALSE, st |-> None, rt |-> None, client_id |-> None,
     token |-> None, expiry_time |-> None, email |-> None]
TokenRows ==
    {NoRow}
    \cup [exists : {TRUE}, st : {None, Some(""), Some("st-1")},
          rt : {None, Some(""), Some("rt-1")},
          client_id : {None, Some("client-1")},
          token : {None, Some("atA"), Some("atC")},
          expiry_time : {None, Some(2)},
          email : {Some("a@example.com")}]

\* Database.update_token(token_id, token=..., expiry_time=...)
UpdateToken(r, new_at, new_expiry) ==
    [r EXCEPT !.token = Some(new_at), !.expiry_time = new_expiry]

\* ------------------------------------------------------------------- state
VARIABLES
    prog,        \* "refresh" or "validate": which program this behaviour runs
    pc,          \* position of the running program
    row,         \* the tokens row of the database
    run,         \* number of the current refresh run
    snap,        \* _run's locals taken from the row before the exchange
    result,      \* the exchange call's return value
    new_at,      \* _run's new_at
    new_expiry,  \* _run's new_expiry
    calls,       \* the calls made on Database and TokenManager, in order
    out,         \* what the process has printed, logged or exited with
    prev,        \* the previous refresh run: its response and what it stored
    active,      \* validator: the tokens of db.get_active_tokens()
    remote,      \* validator: what get_character_details answers per token
    req,         \* validator: sora_character_id
    chosen,      \* validator: random_token
    ret          \* validator: what validate_character gave its caller

refreshVars == <<row, run, snap, result, new_at, new_expiry, calls, prev>>
validatorVars == <<active, remote, req, chosen, ret>>
vars == <<prog, pc, refreshVars, out, validatorVars>>

Call(op, arg, arg2, exp) == [op |-> op, arg |-> arg, arg2 |-> arg2, exp |-> exp]
Line(chan, label, val) == [chan |-> chan, label |-> label, val |-> val]

NoSnap ==
    [old_expiry |-> None, email |-> None, old_token |-> None,
     old_hash |-> None, old_jwt_exp |-> None]
NoResult == RaisedResponse
NoPrev == [ok |-> FALSE, resp |-> RaisedResponse, token |-> None, expiry |-> None]

\* ------------------------------------------------------- the refresher
\* lines 62-73: the diagnostic snapshot of the previous access token
Snapshot(r) ==
    [old_expiry |-> r.expiry_time,
     email |-> r.email,
     old_token |-> r.token,
     old_hash |-> IF Truthy(r.token) THEN Some(Sha256Prefix(r.token[1])) ELSE None,
     old_jwt_exp |-> IF Truthy(r.token) THEN JwtExp(r.token[1]) ELSE None]

\* lines 58-60: the row is absent
LoadNotFound ==
    /\ prog = "refresh" /\ pc = "start"
    /\ ~row.exists
    /\ calls' = Append(calls, Call("get_token", "", None, None))
    /\ out' = Append(out, Line("exit", "token_id not found in DB", StrV("data/hancat.db")))
    /\ pc' = "fatal"
    /\ UNCHANGED <<prog, row, run, snap, result, new_at, new_expiry, prev, validatorVars>>

\* lines 58-73: the row is read and the snapshot taken
Load ==
    /\ prog = "refresh" /\ pc = "start"
    /\ row.exists
    /\ snap' = Snapshot(row)
    /\ calls' = calls \o <<Call("get_token", "", None, None)>>
                 \o (IF Truthy(row.token)
                     THEN <<Call("decode_jwt", row.token[1], None, None)>>
                     ELSE <<>>)
    /\ pc' = "exchange"
    /\ UNCHANGED <<prog, row, run, result, new_at, new_expiry, out, prev, validatorVars>>

\* lines 75-81: which exchange is called, with what; op = "none": neither
\* faulty variant: the refresh token is tried before the session token
ChooseExchangeMutPreferRT(r) ==
    IF Truthy(r.rt) THEN Call("rt_to_at", r.rt[1], r.client_id, None)
    ELSE IF Truthy(r.st) THEN Call("st_to_at", r.st[1], None, None)
    ELSE Call("none", "", None, None)
\* faulty variant: "st is not None" in place of the truthiness test
ChooseExchangeMutEmptyST(r) ==
    IF ~IsNone(r.st) THEN Call("st_to_at", r.st[1], None, None)
    ELSE IF Truthy(r.rt) THEN Call("rt_to_at", r.rt[1], r.client_id, None)
    ELSE Call("none", "", None, None)
ChooseExchange(r) ==
    IF Truthy(r.st) THEN Call("st_to_at", r.st[1], None, None)
    ELSE IF Truthy(r.rt) THEN Call("rt_to_at", r.rt[1], r.client_id, None)
    ELSE Call("none", "", None, None)

\* lines 80-81: neither ST nor RT
MissingCredential ==
    /\ prog = "refresh" /\ pc = "exchange"
    /\ ChooseExchange(row).op = "none"
    /\ out' = Append(out, Line("exit", "has neither ST nor RT; cannot refresh", StrV("42")))
    /\ pc' = "fatal"
    /\ UNCHANGED <<prog, row, run, snap, result, new_at, new_expiry, calls, prev, validatorVars>>

\* lines 76-79, the awaited call raising: the exception leaves _run
ExchangeRaises ==
    /\ prog = "refresh" /\ pc = "exchange"
    /\ ChooseExchange(row).op # "none"
    /\ calls' = Append(calls, ChooseExchange(row))
    /\ result' = RaisedResponse
    /\ out' = Append(out, Line("stderr", "Traceback", StrV(ExchangeErrorText)))
    /\ pc' = "fatal"
    /\ UNCHANGED <<prog, row, run, snap, new_at, new_expiry, prev, validatorVars>>

\* lines 76-79, the awaited call returning a mapping
Exchange ==
    /\ prog = "refresh" /\ pc = "exchange"
    /\ ChooseExchange(row).op # "none"
    /\ \E resp \in Responses \ {RaisedResponse} :
          result' = resp
    /\ calls' = Append(calls, ChooseExchange(row))
    /\ pc' = "check"
    /\ UNCHANGED <<prog, row, run, snap, new_at, new_expiry, out, prev, validatorVars>>

\* lines 83-84: new_at = result.get("access_token"); "if not new_at" fails
\* faulty variant: "new_at is None" in place of "not new_at"
HasAccessTokenMutNotNone(res) == ~IsNone(res.access_token)
HasAccessToken(res) == Truthy(res.access_token)

\* lines 83-85: no usable access token in the result
NoAccessToken ==
    /\ prog = "refresh" /\ pc = "check"
    /\ ~HasAccessToken(result)
    /\ new_at' = result.access_token
    /\ out' = Append(out, Line("exit", "Refresh did not return access_token", NoneV))
    /\ pc' = "fatal"
    /\ UNCHANGED <<prog, row, run, snap, result, new_expiry, calls, prev, validatorVars>>

\* lines 87-98: the expiry to store
\* faulty variant: the "expires" string is preferred to the claims
NewExpiryMutExpiresFirst(at, expires) ==
    IF ~IsNone(_parse_expires_fallback(expires))
    THEN _parse_expires_fallback(expires)
    ELSE JwtExp(at)
\* faulty variant: the old token's expiry claim as a last resort
NewExpiryMutKeepOld(at, expires) ==
    IF ~IsNone(JwtExp(at)) THEN JwtExp(at)
    ELSE IF ~IsNone(_parse_expires_fallback(expires))
    THEN _parse_expires_fallback(expires)
    ELSE snap.old_jwt_exp
NewExpiry(at, expires) ==
    IF ~IsNone(JwtExp(at)) THEN JwtExp(at)
    ELSE _parse_expires_fallback(expires)

\* lines 83-100: the new token and expiry are derived and written
Persist ==
    /\ prog = "refresh" /\ pc = "check"
    /\ HasAccessToken(result)
    /\ new_at' = result.access_token
    /\ new_expiry' = NewExpiry(result.access_token[1], result.expires)
    /\ row' = UpdateToken(row, result.access_token[1], new_expiry')
    /\ calls' = calls \o <<Call("decode_jwt", result.access_token[1], None, None),
                           Call("update_token", result.access_token[1], None, new_expiry')>>
    /\ pc' = "report"
    /\ UNCHANGED <<prog, run, snap, result, out, prev, validatorVars>>

\* lines 104-114: the printed summary
\* faulty variant: the tokens themselves are printed, not their digests
ReportLinesMutRawToken(s, at, expiry, updated) ==
    << Line("stdout", "refreshed token", NoneV),
       Line("stdout", "token_sha256_prefix (before)", OptStrV(s.old_token)),
       Line("stdout", "token_sha256_prefix (after)", StrV(at)) >>
ReportLines(s, at, expiry, updated) ==
    << Line("stdout", "refreshed token", NoneV),
       Line("stdout", "token_id", StrV("42")),
       Line("stdout", "email", OptStrV(s.email)),
       Line("stdout", "db", StrV("data/hancat.db")),
       Line("stdout", "token_sha256_prefix (before)", OptStrV(s.old_hash)),
       Line("stdout", "token_sha256_prefix (after)", StrV(Sha256Prefix(at))),
       Line("stdout", "jwt_exp (before)", OptTimeV(s.old_jwt_exp)),
       Line("stdout", "jwt_exp (after)", OptTimeV(expiry)),
       Line("stdout", "expiry_time (before)", OptTimeV(s.old_expiry)),
       Line("stdout", "expiry_time (after)", OptTimeV(updated.expiry_time)) >>

\* lines 101-114: the read-back and the report
Report ==
    /\ prog = "refresh" /\ pc = "report"
    /\ calls' = Append(calls, Call("get_token", "", None, None))
    /\ out' = out \o ReportLines(snap, new_at[1], new_expiry, row)
    /\ pc' = "done"
    /\ UNCHANGED <<prog, row, run, snap, result, new_at, new_expiry, prev, validatorVars>>

\* the operator runs the script again on the same row (main, lines 117-128)
RunAgain ==
    /\ prog = "refresh" /\ pc \in {"done", "fatal"}
    /\ run < MaxRuns
    /\ run' = run + 1
    /\ prev' = IF pc = "done"
               THEN [ok |-> TRUE, resp |-> result, token |-> row.token,
                     expiry |-> row.expiry_time]
               ELSE NoPrev
    /\ snap' = NoSnap /\ result' = NoResult
    /\ new_at' = None /\ new_expiry' = None
    /\ calls' = <<>> /\ out' = <<>>
    /\ pc' = "start"
    /\ UNCHANGED <<prog, row, validatorVars>>

\* ------------------------------------------------------- the validator
\* A JSON value of a response: null, a string, a mapping or a list.
JNull == [t |-> "null", s |-> "", m |-> <<>>]
JStr(x) == [t |-> "str", s |-> x, m |-> <<>>]
JMap(f) == [t |-> "map", s |-> "", m |-> f]
JList(x) == [t |-> "list", s |-> x, m |-> <<>>]
EmptyMap == JMap(<<>>)

\* Python's "not x" for a JSON value
Falsy(j) ==
    \/ j.t = "null"
    \/ j.t = "map" /\ DOMAIN j.m = {}
    \/ j.t \in {"str", "list"} /\ j.s = ""

\* mapping.get(key, default)
MapGet(j, key, default) == IF key \in DOMAIN j.m THEN j.m[key] ELSE default
\* value == sora_character_id, the latter a str
EqualsId(j, id) == j.t = "str" /\ j.s = id

\* str(e) of an exception, as its characters
Chars404 == <<"4", "0", "4">>
Contains(sub, txt) ==
    \E i \in 1..(Len(txt) - Len(sub) + 1) : SubSeq(txt, i, i + Len(sub) - 1) = sub
ErrorTexts ==
    { <<"4", "0", "4">>, <<"H", "4", "0", "4", "!">>, <<"5", "0", "0">>,
      <<"4", "0", "0", "4">>, <<>> }
\* AttributeError: 'str' object has no attribute 'get'
AttributeErrorText == <<"n", "o", "g", "e", "t">>

\* What SoraClient.get_character_details can do for one token
Returned(j) == [raises |-> FALSE, details |-> j, msg |-> <<>>]
Raised(txt) == [raises |-> TRUE, details |-> JNull, msg |-> txt]
LookupOutcomes ==
    { Returned(JNull), Returned(EmptyMap),
      Returned(JMap("id" :> JStr("ch_1"))),
      Returned(JMap("id" :> JStr("ch_9"))),
      Returned(JMap("name" :> JStr("ch_1"))),
      Returned(JMap("character" :> JMap("id" :> JStr("ch_1")))),
      Returned(JMap("character" :> JMap("id" :> JStr("ch_9")))),
      Returned(JMap(("id" :> JStr("ch_9")) @@ ("character" :> JMap("id" :> JStr("ch_1"))))),
      Returned(JMap("character" :> JStr("ch_1"))),
      Returned(JMap("character" :> JNull)),
      Returned(JList("ch_1")) }
    \cup {Raised(txt) : txt \in ErrorTexts}

ValidatorTokens == {"atA", "atB"}
CharacterIds == {"ch_1", "ch_2"}

Verdict(r, lines) == [ret |-> r, lines |-> lines]

\* lines 60-66: the except clause.  The error line also carries str(e),
\* the collaborator's text, which holds no token value (ErrorTexts).
\* faulty variant: errors other than 404 are re-raised
OnExceptionMutPropagate(id, txt) ==
    IF Contains(Chars404, txt)
    THEN Verdict("false", <<Line("log_info", "not found (404)", StrV(id))>>)
    ELSE Verdict("exception", <<>>)
OnException(id, txt) ==
    IF Contains(Chars404, txt)
    THEN Verdict("false", <<Line("log_info", "not found (404)", StrV(id))>>)
    ELSE Verdict("false", <<Line("log_error", "Validation failed", StrV(id))>>)

\* lines 41-58: the classification of the returned details
\* faulty variant: the nested "character" shape is not looked at
ClassifyMutNoNested(details, id) ==
    IF Falsy(details) THEN Verdict("false", <<>>)
    ELSE IF details.t # "map" THEN OnException(id, AttributeErrorText)
    ELSE IF EqualsId(MapGet(details, "id", JNull), id)
    THEN Verdict("true", <<Line("log_info", "is VALID", StrV(id))>>)
    ELSE Verdict("false", <<Line("log_warning", "ID mismatch", StrV(id))>>)
Classify(details, id) ==
    IF Falsy(details) THEN Verdict("false", <<>>)
    ELSE IF details.t # "map" THEN OnException(id, AttributeErrorText)
    ELSE IF EqualsId(MapGet(details, "id", JNull), id)
    THEN Verdict("true", <<Line("log_info", "is VALID", StrV(id))>>)
    ELSE LET char_data == MapGet(details, "character", EmptyMap) IN
         IF char_data.t # "map" THEN OnException(id, AttributeErrorText)
         ELSE IF EqualsId(MapGet(char_data, "id", JNull), id)
         THEN Verdict("true", <<Line("log_info", "is VALID (nested)", StrV(id))>>)
         ELSE Verdict("false",
                      <<Line("log_warning", "ID mismatch",
                             OptStrV(IF MapGet(details, "id", JNull).t = "str"
                                     THEN Some(MapGet(details, "id", JNull).s)
                                     ELSE None))>>)

\* lines 29-31: what an empty token list gives
\* faulty variant: nothing is logged for an empty token list
EmptyVerdictMutSilent == Verdict("false", <<>>)
EmptyVerdict ==
    Verdict("false",
            <<Line("log_error", "No active tokens available for validation", NoneV)>>)

\* lines 28-31: no active token
NoActiveTokens ==
    /\ prog = "validate" /\ pc = "start"
    /\ active = {}
    /\ calls' = Append(calls, Call("get_active_tokens", "", None, None))
    /\ out' = out \o EmptyVerdict.lines
    /\ ret' = EmptyVerdict.ret
    /\ pc' = "returned"
    /\ UNCHANGED <<prog, row, run, snap, result, new_at, new_expiry, prev,
                   active, remote, req, chosen>>

\* lines 28-37: random.choice over the active tokens
\* the tokens random.choice(all_tokens) can give
Choices(all_tokens) == all_tokens

PickToken ==
    /\ prog = "validate" /\ pc = "start"
    /\ active # {}
    /\ \E t \in Choices(active) : chosen' = Some(t)
    /\ calls' = Append(calls, Call("get_active_tokens", "", None, None))
    /\ out' = Append(out, Line("log_info", "Validating character", StrV(req)))
    /\ pc' = "lookup"
    /\ UNCHANGED <<prog, row, run, snap, result, new_at, new_expiry, prev,
                   active, remote, req, ret>>

\* lines 39-66: the lookup and what is made of its outcome
LookupVerdict(outcome, id) ==
    IF outcome.raises THEN OnException(id, outcome.msg)
    ELSE Classify(outcome.details, id)

Lookup ==
    /\ prog = "validate" /\ pc = "lookup"
    /\ calls' = Append(calls, Call("get_character_details", req, chosen, None))
    /\ LET v == LookupVerdict(remote[chosen[1]], req) IN
          /\ ret' = v.ret
          /\ out' = out \o v.lines
    /\ pc' = "returned"
    /\ UNCHANGED <<prog, row, run, snap, result, new_at, new_expiry, prev,
                   active, remote, req, chosen>>

\* ------------------------------------------------------------ specification
NoRemote == [t \in ValidatorTokens |-> Returned(JNull)]

InitRefresh ==
    /\ prog = "refresh"
    /\ row \in TokenRows
    /\ active = {} /\ remote = NoRemote /\ req = "ch_1"

InitValidate ==
    /\ prog = "validate"
    /\ row = NoRow
    /\ active \in SUBSET ValidatorTokens
    /\ remote \in [ValidatorTokens -> LookupOutcomes]
    /\ req \in CharacterIds

Init ==
    /\ InitRefresh \/ InitValidate
    /\ pc = "start" /\ run = 1
    /\ snap = NoSnap /\ result = NoResult
    /\ new_at = None /\ new_expiry = None
    /\ calls = <<>> /\ out = <<>>
    /\ prev = NoPrev
    /\ chosen = None /\ ret = "pending"

Next ==
    \/ LoadNotFound
    \/ Load
    \/ MissingCredential
    \/ ExchangeRaises
    \/ Exchange
    \/ NoAccessToken
    \/ Persist
    \/ Report
    \/ RunAgain
    \/ NoActiveTokens
    \/ PickToken
    \/ Lookup

Spec == Init /\ [][Next]_vars

\* ------------------------------------------------------------------ claims
ExchangeOps == {"st_to_at", "rt_to_at"}
CallsTo(ops) == SelectSeq(calls, LAMBDA c : c.op \in ops)
\* the refresh run is past its exchange step (a fatal end before it excluded)
PastExchange ==
    /\ prog = "refresh"
    /\ row.exists
    /\ pc \in {"check", "report", "done", "fatal"}

\* C1: a row with a non-empty session token gets exactly the call
\* st_to_at(st) and never rt_to_at, also when it holds a refresh token; a
\* row with no session token and a non-empty refresh token gets exactly the
\* call rt_to_at(rt, client_id=row.client_id) and never st_to_at.
C1_ExchangePrecedence ==
    prog = "refresh" /\ row.exists =>
      /\ Truthy(row.st) =>
           /\ CallsTo({"rt_to_at"}) = <<>>
           /\ PastExchange =>
                CallsTo(ExchangeOps) = <<Call("st_to_at", row.st[1], None, None)>>
      /\ ~Truthy(row.st) /\ Truthy(row.rt) =>
           /\ CallsTo({"st_to_at"}) = <<>>
           /\ PastExchange =>
                CallsTo(ExchangeOps) =
                  <<Call("rt_to_at", row.rt[1], row.client_id, None)>>

C1_Witness ==
    /\ prog = "refresh" /\ pc = "done"
    /\ Truthy(row.st) /\ Truthy(row.rt)
    /\ CallsTo(ExchangeOps) # <<>>

\* What validate_character should answer for details that came back: the
\* top-level "id", or the "id" inside a mapping under "character", is the
\* requested identifier.
IdMatches(outcome, id) ==
    /\ ~outcome.raises
    /\ outcome.details.t = "map"
    /\ LET m == outcome.details.m IN
         \/ "id" \in DOMAIN m /\ m["id"].t = "str" /\ m["id"].s = id
         \/ /\ "character" \in DOMAIN m
            /\ m["character"].t = "map"
            /\ "id" \in DOMAIN m["character"].m
            /\ m["character"].m["id"].t = "str"
            /\ m["character"].m["id"].s = id

\* C2: whenever some active record's access token would make the lookup
\* return a matching identifier, validate_character returns true, whichever
\* record the random selection picked.
C2_AnyCredentialSuffices ==
    (prog = "validate" /\ pc = "returned"
       /\ \E t \in active : IdMatches(remote[t], req))
    => ret = "true"

\* C3: a row with neither a session token nor a refresh token ends the run
\* with the missing-credential exit, with no exchange call and no storage
\* write, its access token and expiry as they were read.
C3_MissingCredential ==
    (prog = "refresh" /\ row.exists /\ ~Truthy(row.st) /\ ~Truthy(row.rt)) =>
      /\ CallsTo(ExchangeOps \cup {"update_token"}) = <<>>
      /\ pc \notin {"check", "report", "done"}
      /\ pc = "fatal" =>
           /\ out # <<>>
           /\ out[Len(out)].chan = "exit"
           /\ out[Len(out)].label = "has neither ST nor RT; cannot refresh"
           /\ row.token = snap.old_token
           /\ row.expiry_time = snap.old_expiry

C3_Witness ==
    /\ prog = "refresh" /\ pc = "fatal" /\ row.exists
    /\ row.st = Some("") /\ IsNone(row.rt)
    /\ out # <<>>

\* the expiry passed to update_token, once the write has been made
Written == CallsTo({"update_token"})[1].exp
AfterWrite == prog = "refresh" /\ pc \in {"report", "done"}
\* s is core with white space around it
IsPadded(s, core) ==
    \E i, j \in 0..Len(s) :
       s = [k \in 1..i |-> Sp] \o core \o [k \in 1..j |-> Sp]
\* the local naive times an "expires" string stands for: none, or one
ExpiresMeanings(e) ==
    IF IsNone(e) THEN {}
    ELSE LET s == e[1]
             ps == {s[i] : i \in DOMAIN s}
         IN {p.v : p \in {p \in ps : IsPadded(s, <<Dt(p.v)>>)}}
            \cup {p.v + LocalUtcOffset :
                    p \in {p \in ps : IsPadded(s, <<Dt(p.v), Zed>>)}}
            \cup {pq[1].v - pq[2].v + LocalUtcOffset :
                    pq \in {pq \in ps \X ps :
                              IsPadded(s, <<Dt(pq[1].v), Off(pq[2].v)>>)}}
ExpiresFallbackIs(e, w) ==
    IF IsNone(w) THEN ExpiresMeanings(e) = {} ELSE ExpiresMeanings(e) = {w[1]}

\* C4 as stated: whenever the new token's claims decode and contain "exp",
\* the expiry written is the conversion of that claim (none, if it has no
\* conversion), whatever "expires" string the exchange result carries.
C4_ClaimsAlwaysTakePrecedence ==
    AfterWrite =>
      LET d == decode_jwt(new_at[1]) IN
      d.ok /\ d.hasExp =>
        Written = (IF d.exp.kind = "int" THEN Some(d.exp.v + LocalUtcOffset)
                   ELSE None)

\* C4 (amended): the expiry written is the local-time conversion of the new
\* token's "exp" claim whenever the claims decode, contain "exp" and int()
\* and datetime.fromtimestamp accept its value, whatever "expires" says;
\* in every other case (decode failure, no "exp", an "exp" that does not
\* convert) it is what the "expires" string stands for when that is present
\* and parseable (trailing Z as UTC, aware values to naive local time), and
\* None otherwise; the run goes on to its write in every one of these cases.
C4_ExpiryDerivation ==
    AfterWrite =>
      LET d == decode_jwt(new_at[1]) IN
      /\ Len(CallsTo({"update_token"})) = 1
      /\ new_expiry = Written
      /\ IF d.ok /\ d.hasExp /\ d.exp.kind = "int"
         THEN Written = Some(d.exp.v + LocalUtcOffset)
         ELSE ExpiresFallbackIs(result.expires, Written)

C4_Witness ==
    /\ AfterWrite /\ pc = "done"
    /\ new_at = Some("atH")
    /\ result.expires = Some(<<Sp, Dt(4), Off(2), Sp>>)
    /\ Written = Some(4 - 2 + LocalUtcOffset)

\* C5: when the lookup returns (does not raise), validate_character gives
\* true exactly when the top-level "id" or the "id" inside the "character"
\* mapping equals the requested identifier, and false for every other
\* shape: absent or empty details, a non-mapping "character", a mismatch.
C5_Classification ==
    (prog = "validate" /\ pc = "returned" /\ ~IsNone(chosen)
       /\ ~remote[chosen[1]].raises)
    => /\ ret \in {"true", "false"}
       /\ ret = "true" <=> IdMatches(remote[chosen[1]], req)

C5_Witness ==
    /\ prog = "validate" /\ pc = "returned" /\ ~IsNone(chosen)
    /\ ret = "true"
    /\ remote[chosen[1]].details.t = "map"
    /\ "id" \in DOMAIN remote[chosen[1]].details.m
    /\ remote[chosen[1]].details.m["id"].s # req

\* the raw secrets a run handles: the row's access token (old and new),
\* session token and refresh token, and the validator's tokens
SecretValues ==
    ({o[1] : o \in {row.st, row.rt, row.token, snap.old_token, new_at,
                    result.access_token, chosen} \ {None}}
       \cup active) \ {""}

HasNotFoundCode(txt) ==
    \E i \in DOMAIN txt :
       i + 2 \in DOMAIN txt /\ txt[i] = "4" /\ txt[i + 1] = "0" /\ txt[i + 2] = "4"
Logged(chan) == \E i \in DOMAIN out : out[i].chan = chan

\* C7: when the lookup raises, validate_character returns false and no
\* exception reaches the caller; a text containing "404" is logged at info
\* level and not at error level, every other one at error level.
C7_LookupErrors ==
    (prog = "validate" /\ pc = "returned" /\ ~IsNone(chosen)
       /\ remote[chosen[1]].raises)
    => /\ ret = "false"
       /\ IF HasNotFoundCode(remote[chosen[1]].msg)
          THEN /\ ~Logged("log_error")
               /\ \E i \in DOMAIN out :
                     out[i].chan = "log_info" /\ out[i].label = "not found (404)"
          ELSE Logged("log_error")

C7_Witness ==
    /\ prog = "validate" /\ pc = "returned" /\ ~IsNone(chosen)
    /\ remote[chosen[1]].raises
    /\ remote[chosen[1]].msg = <<"H", "4", "0", "4", "!">>
    /\ ret = "false"

\* C8: with no active token validate_character returns false, logs an
\* error and makes no lookup; with some, it makes at most one lookup.
C8_SingleAttempt ==
    prog = "validate" =>
      /\ Len(CallsTo({"get_character_details"})) <= 1
      /\ active = {} =>
           /\ CallsTo({"get_character_details"}) = <<>>
           /\ pc = "returned" => ret = "false" /\ Logged("log_error")
      /\ active # {} /\ pc = "returned" =>
           Len(CallsTo({"get_character_details"})) = 1

C8_Witness ==
    /\ prog = "validate" /\ pc = "returned"
    /\ active = {} /\ ret = "false"

\* C9: a second successful run whose exchange gave the same response as the
\* first leaves the row with the access token and expiry the first stored.
C9_Idempotent ==
    (prog = "refresh" /\ pc = "done" /\ prev.ok /\ prev.resp = result)
    => /\ row.token = prev.token
       /\ row.expiry_time = prev.expiry

C9_Witness ==
    /\ prog = "refresh" /\ pc = "done" /\ run = 2
    /\ prev.ok /\ prev.resp = result
    /\ row.token = Some("atC") /\ IsNone(row.expiry_time)

\* the calls on storage and on the exchange, in order
SideEffects == CallsTo({"get_token", "update_token"} \cup ExchangeOps)
Ops(cs) == [i \in DOMAIN cs |-> cs[i].op]

\* C10: a run writes at most once, and only after an exchange call that
\* returned a non-empty access token, which is what it writes; a run that
\* ends in a fatal error (row not found, exchange raising, no access token)
\* has written nothing and left the row's token and expiry as read; a
\* successful run makes one read, one exchange call, one write and one
\* read-back, in that order.
C10_WriteOnceAfterExchange ==
    prog = "refresh" =>
      /\ Len(CallsTo({"update_token"})) <= 1
      /\ \A i \in DOMAIN calls :
            calls[i].op = "update_token" =>
              /\ \E j \in 1..(i - 1) : calls[j].op \in ExchangeOps
              /\ ~result.raises
              /\ calls[i].arg # ""
              /\ result.access_token = Some(calls[i].arg)
      /\ pc = "fatal" =>
            /\ CallsTo({"update_token"}) = <<>>
            /\ out # <<>> /\ out[Len(out)].chan \in {"exit", "stderr"}
            /\ row.token = snap.old_token
            /\ row.expiry_time = snap.old_expiry
      /\ pc = "done" =>
            \E x \in ExchangeOps :
               Ops(SideEffects) = <<"get_token", x, "update_token", "get_token">>

C10_Witness ==
    /\ prog = "refresh" /\ pc = "done" /\ run = 2
    /\ Len(CallsTo({"update_token"})) = 1
    /\ ~prev.ok

====
